---- MODULE Spec2Model ----
(***************************************************************************)
(* baxter_pick_and_place: the region segmenter (machine_vision.py:         *)
(* segment_area, segment_red_area, segment_blue_area, _extract_contour),   *)
(* the demonstration loop PickAndPlace.perform (joint_pick_and_place.py)   *)
(* and the patch placement of _assemble_image (assemble_data.py).  The     *)
(* three are independent programs; each has its own specification.         *)
(*                                                                         *)
(* Images are values of the form <<"img", op, op, ...>>: the frame's       *)
(* pixels followed by the transforms applied to them.  A frame says, for   *)
(* each image the code can derive from it, which contours                  *)
(* cv2.findContours reports on that image.  Contours are point sequences.  *)
(* Areas are kept in half pixels (twice cv2.contourArea) so that they stay *)
(* integers.                                                               *)
(***************************************************************************)
EXTENDS Integers, Sequences, FiniteSets, TLC

VARIABLES
    entry,      \* which entry point is running: "none", "area", "red", "blue"
    frame,      \* the input frame: [w, h, cont]
    a_low,      \* parameter a_low
    a_high,     \* parameter a_high
    outpath,    \* whether a (truthy) outpath was passed
    pc,         \* position in the running function
    bufs,       \* the arrays the function holds, by variable name
    contour,    \* local contour
    max_area,   \* local max_area of the last _extract_contour call (half pixels)
    attempts,   \* the _extract_contour calls of this invocation, with what each returned
    title,      \* local title (and array: the buffer of that stage)
    rroi,       \* locals (rrect, box)
    roi,        \* locals (x, y, w, h)
    written,    \* suffix of the diagnostic file written by this invocation, or ""
    result,     \* how the invocation ended
    prev,       \* outcome of the invocation before, when this one re-invokes it
    prevMode,   \* "none", "same" (same arguments), "toggled" (outpath toggled)
    \* PickAndPlace.perform
    ppc,        \* position in perform
    instr,      \* local instr
    is_shutdown, \* what rospy.is_shutdown() returns
    obj_id,     \* local obj_id
    tgt_id,     \* local tgt_id
    obj_pose,   \* local obj_pose
    tgt_pose,   \* local tgt_pose
    arm,        \* local arm
    success,    \* local success
    cmds,       \* the calls to collaborators made for the current task, with their results
    fails,      \* failed grasps of the current task
    polls,      \* loop iterations spent waiting in the current task
    \* _assemble_image
    apc,        \* position in _assemble_image
    left,       \* patches not yet read
    hw,         \* locals (h, w)
    alpha,      \* local alpha
    nhw,        \* locals (nh, nw)
    tx,         \* local tx
    ty,         \* local ty
    aerr        \* message of the ValueError raised, or ""

pvars == <<ppc, instr, is_shutdown, obj_id, tgt_id, obj_pose, tgt_pose, arm, success,
           cmds, fails, polls>>

avars == <<apc, left, hw, alpha, nhw, tx, ty, aerr>>

vars == <<entry, frame, a_low, a_high, outpath, pc, bufs, contour, max_area,
          attempts, title, rroi, roi, written, result, prev, prevMode, pvars, avars>>

----------------------------------------------------------------------------
(* Bounds *)

MaxTries == 2       \* failed grasps in one task
MaxPolls == 2       \* iterations of the waiting loops in one task
MaxSizeSteps == 5   \* patch sides are 100, 200, ... 100 * MaxSizeSteps pixels
MaxContours == 2    \* contours a frame yields, over all images derived from it
MaxBand == 3        \* a_low and a_high range over -1 .. MaxBand

----------------------------------------------------------------------------
(* Contours *)

None == <<>>

\* a degenerate contour (an edge fragment): area 0
Seg == << <<1, 1>>, <<3, 1>> >>
\* axis-parallel rectangles
Sq == << <<1, 1>>, <<2, 1>>, <<2, 2>>, <<1, 2>> >>
Sq2 == << <<2, 2>>, <<3, 2>>, <<3, 3>>, <<2, 3>> >>
Wide == << <<0, 0>>, <<2, 0>>, <<2, 1>>, <<0, 1>> >>

Catalogue == {Seg, Sq, Sq2, Wide}
FrameCatalogue == {Seg, Sq, Wide}

Abs(n) == IF n < 0 THEN -n ELSE n

RECURSIVE Shoelace(_, _)
Shoelace(c, i) ==
    IF i > Len(c) THEN 0
    ELSE LET p == c[i]
             q == c[IF i = Len(c) THEN 1 ELSE i + 1]
         IN  p[1] * q[2] - q[1] * p[2] + Shoelace(c, i + 1)

\* twice cv2.contourArea(c): Green's formula over the contour's points
contourArea2(c) == Abs(Shoelace(c, 1))

Xs(c) == {c[i][1] : i \in 1..Len(c)}
Ys(c) == {c[i][2] : i \in 1..Len(c)}
Min(S) == CHOOSE m \in S : \A n \in S : m <= n
Max(S) == CHOOSE m \in S : \A n \in S : m >= n

\* cv2.boundingRect(c): (x, y, w, h), the pixel extent of the points
boundingRect(c) ==
    <<Min(Xs(c)), Min(Ys(c)), Max(Xs(c)) - Min(Xs(c)) + 1, Max(Ys(c)) - Min(Ys(c)) + 1>>

\* cv2.minAreaRect(c) for the axis-parallel contours of the catalogue:
\* <<2*cx, 2*cy, width, height>> (the centre doubled, to stay in integers)
minAreaRect(c) ==
    <<Min(Xs(c)) + Max(Xs(c)), Min(Ys(c)) + Max(Ys(c)),
      Max(Xs(c)) - Min(Xs(c)), Max(Ys(c)) - Min(Ys(c))>>

\* cv2.cv.BoxPoints(rrect): the four corners of the rotated rectangle
BoxPoints(r) ==
    LET x0 == (r[1] - r[3]) \div 2
        x1 == (r[1] + r[3]) \div 2
        y0 == (r[2] - r[4]) \div 2
        y1 == (r[2] + r[4]) \div 2
    IN  << <<x0, y1>>, <<x0, y0>>, <<x1, y0>>, <<x1, y1>> >>

----------------------------------------------------------------------------
(* _extract_contour *)

\* the band test with both bounds admitted
RECURSIVE extract_loop_closed(_, _, _, _, _, _)
extract_loop_closed(contours, i, lo, hi, m, best) ==
    IF i > Len(contours) THEN [contour |-> best, max_area |-> m]
    ELSE LET c == contours[i]
             area == contourArea2(c)
         IN  IF 2 * lo <= area /\ area <= 2 * hi /\ area > m
             THEN extract_loop_closed(contours, i + 1, lo, hi, area, c)
             ELSE extract_loop_closed(contours, i + 1, lo, hi, m, best)

\* the band test as two alternatives instead of a chained comparison
RECURSIVE extract_loop_either(_, _, _, _, _, _)
extract_loop_either(contours, i, lo, hi, m, best) ==
    IF i > Len(contours) THEN [contour |-> best, max_area |-> m]
    ELSE LET c == contours[i]
             area == contourArea2(c)
         IN  IF (2 * lo < area \/ area < 2 * hi) /\ area > m
             THEN extract_loop_either(contours, i + 1, lo, hi, area, c)
             ELSE extract_loop_either(contours, i + 1, lo, hi, m, best)

\* contour = c assigned for every contour in the band, not only for a larger one
RECURSIVE extract_loop_last(_, _, _, _, _, _)
extract_loop_last(contours, i, lo, hi, m, best) ==
    IF i > Len(contours) THEN [contour |-> best, max_area |-> m]
    ELSE LET c == contours[i]
             area == contourArea2(c)
         IN  IF 2 * lo < area /\ area < 2 * hi
             THEN extract_loop_last(contours, i + 1, lo, hi,
                                    IF area > m THEN area ELSE m, c)
             ELSE extract_loop_last(contours, i + 1, lo, hi, m, best)

RECURSIVE extract_loop(_, _, _, _, _, _)
extract_loop(contours, i, lo, hi, m, best) ==
    IF i > Len(contours) THEN [contour |-> best, max_area |-> m]
    ELSE LET c == contours[i]
             area == contourArea2(c)
         IN  IF 2 * lo < area /\ area < 2 * hi /\ area > m
             THEN extract_loop(contours, i + 1, lo, hi, area, c)
             ELSE extract_loop(contours, i + 1, lo, hi, m, best)

\* max_area kept from the call before instead of starting at 0.0
extract_contour_stale(contours, lo, hi) == extract_loop(contours, 1, lo, hi, max_area, None)

extract_contour(contours, lo, hi) == extract_loop(contours, 1, lo, hi, 0, None)

----------------------------------------------------------------------------
(* Images and frames *)

Unset == <<>>

\* the array imgmsg2img returns: the frame's pixels
ImgPx == <<"img">>

cvtColor(image, code) == Append(image, code)
equalizeHist(image) == Append(image, "equalizeHist")
\* cv2.threshold(image, th, 255, cv2.THRESH_BINARY); th is fixed during an invocation
threshold(image) == Append(image, "threshold")
morphologyEx(image, op) == Append(image, op)
\* cv2.split(image)[ch]
split(image, ch) == Append(Append(image, "split"), ToString(ch))
\* ndarray.copy(): the same pixels in a new array
copy(image) == image
\* mask = zeros((h+2, w+2)); mask[1:-1, 1:-1] = image
pad(image) == Append(image, "pad1")
floodFill(image) == Append(image, "floodFill")
draw(image, shape) == Append(image, shape)

RedChannel == 2
BlueChannel == 0

GrayImg == cvtColor(ImgPx, "RGB2GRAY")
ThreshImg == threshold(equalizeHist(GrayImg))
OpeningImg == morphologyEx(ThreshImg, "MORPH_OPEN")
OutlineImg == morphologyEx(morphologyEx(OpeningImg, "MORPH_OPEN"), "MORPH_GRADIENT")
FloodedImg == floodFill(copy(GrayImg))
RedThreshImg == threshold(split(ImgPx, RedChannel))
BlueThreshImg == threshold(split(ImgPx, BlueChannel))

\* the images on which each entry point can look for contours
KeysOf(e) ==
    CASE e = "area" -> <<ThreshImg, OpeningImg, OutlineImg, FloodedImg>>
      [] e = "red" -> <<RedThreshImg>>
      [] e = "blue" -> <<BlueThreshImg>>
      [] OTHER -> <<ImgPx>>

SeqsUpTo(S, n) == UNION {[1..k -> S] : k \in 0..n}

RECURSIVE Total(_, _, _)
Total(t, keys, i) == IF i > Len(keys) THEN 0 ELSE Len(t[keys[i]]) + Total(t, keys, i + 1)

Range(s) == {s[i] : i \in 1..Len(s)}

\* the contours findContours reports on each image, at most MaxContours in all
Tables(keys, cat) ==
    {t \in [Range(keys) -> SeqsUpTo(cat, MaxContours)] : Total(t, keys, 1) <= MaxContours}

\* <<width, height>>: a landscape frame and a square one
FrameSizes == {<<6, 3>>, <<4, 4>>}

Frames(e, cat) ==
    {[w |-> s[1], h |-> s[2], cont |-> t] : s \in FrameSizes, t \in Tables(KeysOf(e), cat)}

NoFrame == [w |-> 0, h |-> 0, cont |-> [k \in {} |-> <<>>]]

Bands == (-1..MaxBand) \X (-1..MaxBand)

\* cv2.Canny, closing and cv2.findContours on an image derived from the frame
findContours(image) ==
    IF image \in DOMAIN frame.cont THEN frame.cont[image] ELSE <<>>

BufNames == {"img", "gray", "equ", "thresh", "opening", "closing", "outline",
             "mask", "flooded", "red", "blue", "sample"}

NoBufs == [b \in BufNames |-> Unset]

Put(bs, b, image) == [bs EXCEPT ![b] = image]

NoResult == [kind |-> "none", rroi |-> <<>>, roi |-> <<>>]

\* what an invocation came to: its result and the stage the region was taken from
Outcome == [result |-> result, title |-> title]
NoOutcome == [result |-> NoResult, title |-> ""]

Terminal == pc \in {"returned", "raised"}

----------------------------------------------------------------------------
(* Invocation: argument binding and fresh locals *)

Fresh ==
    /\ bufs' = NoBufs
    /\ contour' = None
    /\ attempts' = <<>>
    /\ title' = ""
    /\ rroi' = <<>>
    /\ roi' = <<>>
    /\ written' = ""
    /\ result' = NoResult
    /\ UNCHANGED <<max_area, pvars, avars>>

FirstStep(e) == IF e = "area" THEN "threshold" ELSE "channel"

\* a caller invokes segment_area / segment_red_area / segment_blue_area
Call(e) ==
    /\ pc = "idle"
    /\ entry' = e
    /\ \E f \in Frames(e, FrameCatalogue), b \in Bands, o \in BOOLEAN :
        /\ frame' = f
        /\ a_low' = b[1]
        /\ a_high' = b[2]
        /\ outpath' = o
    /\ pc' = FirstStep(e)
    /\ prev' = NoOutcome
    /\ prevMode' = "none"
    /\ Fresh

CallArea == Call("area")
CallRed == Call("red")
CallBlue == Call("blue")

\* the caller invokes the same entry point again with the same arguments
Repeat ==
    /\ Terminal
    /\ pc' = FirstStep(entry)
    /\ prev' = Outcome
    /\ prevMode' = "same"
    /\ Fresh
    /\ UNCHANGED <<entry, frame, a_low, a_high, outpath>>

\* ... or with the same arguments but outpath supplied instead of omitted, or omitted
\* instead of supplied
RepeatToggled ==
    /\ Terminal
    /\ pc' = FirstStep(entry)
    /\ outpath' = ~outpath
    /\ prev' = Outcome
    /\ prevMode' = "toggled"
    /\ Fresh
    /\ UNCHANGED <<entry, frame, a_low, a_high>>

\* the caller is done with the result; the next invocation may have any arguments
Discard ==
    /\ Terminal
    /\ entry' = "none"
    /\ frame' = NoFrame
    /\ a_low' = 0
    /\ a_high' = 0
    /\ outpath' = FALSE
    /\ pc' = "idle"
    /\ prev' = NoOutcome
    /\ prevMode' = "none"
    /\ Fresh

----------------------------------------------------------------------------
(* segment_area *)

UnchangedArgs == UNCHANGED <<entry, frame, a_low, a_high, outpath, prev, prevMode, pvars, avars>>

\* contour = _extract_contour(image, c_low, c_high, a_low, a_high) at a stage
Extract(stage, image) ==
    LET r == extract_contour(findContours(image), a_low, a_high)
    IN  /\ contour' = r.contour
        /\ max_area' = r.max_area
        /\ attempts' = Append(attempts, [stage |-> stage, image |-> image,
                                         contour |-> r.contour])

\* the next stage tried whether or not this one found a contour
BranchNoStop(stage, next) ==
    /\ title' = IF contour' # None THEN stage ELSE title
    /\ pc' = next

\* if contour is not None: array, title = ...; else: the next stage
Branch(stage, next) ==
    IF contour' # None
    THEN title' = stage /\ pc' = "check"
    ELSE title' = title /\ pc' = next

SegThreshold ==
    /\ entry = "area" /\ pc = "threshold"
    /\ LET gray == cvtColor(ImgPx, "RGB2GRAY")
           equ == equalizeHist(gray)
           thresh == threshold(equ)
       IN  /\ bufs' = Put(Put(Put(Put(bufs, "img", ImgPx), "gray", gray), "equ", equ),
                          "thresh", thresh)
           /\ Extract("threshold", thresh)
    /\ Branch("threshold", "opening")
    /\ UNCHANGED <<rroi, roi, written, result>>
    /\ UnchangedArgs

SegOpening ==
    /\ entry = "area" /\ pc = "opening"
    /\ LET opening == morphologyEx(bufs["thresh"], "MORPH_OPEN")
       IN  /\ bufs' = Put(bufs, "opening", opening)
           /\ Extract("opening", opening)
    /\ Branch("opening", "outline")
    /\ UNCHANGED <<rroi, roi, written, result>>
    /\ UnchangedArgs

\* the local named closing computed with cv2.MORPH_CLOSE
SegOutlineClosing ==
    /\ entry = "area" /\ pc = "outline"
    /\ LET closing == morphologyEx(bufs["opening"], "MORPH_CLOSE")
           outline == morphologyEx(closing, "MORPH_GRADIENT")
       IN  /\ bufs' = Put(Put(bufs, "closing", closing), "outline", outline)
           /\ Extract("outline", outline)
    /\ Branch("outline", "flooded")
    /\ UNCHANGED <<rroi, roi, written, result>>
    /\ UNCHANGED <<entry, frame, a_low, a_high, outpath, prev, prevMode, pvars, avars>>

SegOutline ==
    /\ entry = "area" /\ pc = "outline"
    /\ LET closing == morphologyEx(bufs["opening"], "MORPH_OPEN")
           outline == morphologyEx(closing, "MORPH_GRADIENT")
       IN  /\ bufs' = Put(Put(bufs, "closing", closing), "outline", outline)
           /\ Extract("outline", outline)
    /\ Branch("outline", "flooded")
    /\ UNCHANGED <<rroi, roi, written, result>>
    /\ UnchangedArgs

\* seed_pt = (mask.shape[0], 0): an (x, y) point, x being the mask's row count h + 2
seed_pt == <<frame.h + 2, 0>>

\* cv2.floodFill rejects a seed outside the image it fills ("Seed point is outside of image")
SeedInside(pt, w, h) == 0 <= pt[1] /\ pt[1] < w /\ 0 <= pt[2] /\ pt[2] < h

SegFlooded ==
    /\ entry = "area" /\ pc = "flooded"
    /\ LET mask == pad(bufs["outline"])
           flooded == copy(bufs["gray"])
       IN  IF SeedInside(seed_pt, frame.w, frame.h)
           THEN /\ bufs' = Put(Put(bufs, "mask", floodFill(mask)), "flooded", floodFill(flooded))
                /\ Extract("flooded", floodFill(flooded))
                /\ Branch("flooded", "check")
                /\ UNCHANGED result
           ELSE /\ bufs' = Put(Put(bufs, "mask", mask), "flooded", flooded)
                /\ result' = [kind |-> "cv2.error", rroi |-> <<>>, roi |-> <<>>]
                /\ pc' = "raised"
                /\ UNCHANGED <<contour, max_area, attempts, title>>
    /\ UNCHANGED <<rroi, roi, written>>
    /\ UnchangedArgs

\* if contour is None: raise ValueError('No contour found!')
SegCheck ==
    /\ entry = "area" /\ pc = "check"
    /\ IF contour = None
       THEN /\ result' = [kind |-> "ValueError", rroi |-> <<>>, roi |-> <<>>]
            /\ pc' = "raised"
       ELSE /\ result' = result
            /\ pc' = "roi"
    /\ UNCHANGED <<bufs, contour, max_area, attempts, title, rroi, roi, written>>
    /\ UnchangedArgs

----------------------------------------------------------------------------
(* segment_red_area, segment_blue_area *)

\* the two channel indices exchanged
ChannelSwapped(e) == IF e = "red" THEN BlueChannel ELSE RedChannel

Channel(e) == IF e = "red" THEN RedChannel ELSE BlueChannel

ChannelThreshold(e) ==
    /\ entry = e /\ pc = "channel"
    /\ LET chan == split(ImgPx, Channel(e))
           thresh == threshold(chan)
       IN  /\ bufs' = Put(Put(Put(bufs, "img", ImgPx), e, chan), "thresh", thresh)
           /\ Extract("threshold", thresh)
    /\ IF contour' = None
       THEN /\ result' = [kind |-> "ValueError", rroi |-> <<>>, roi |-> <<>>]
            /\ pc' = "raised"
       ELSE /\ result' = result
            /\ pc' = "roi"
    /\ UNCHANGED <<title, rroi, roi, written>>
    /\ UnchangedArgs

RedThreshold == ChannelThreshold("red")
BlueThreshold == ChannelThreshold("blue")

----------------------------------------------------------------------------
(* the regions, the diagnostic rendering and the return: the same code in the
   three entry points *)

Roi ==
    /\ pc = "roi"
    /\ LET rrect == minAreaRect(contour)
       IN  rroi' = <<rrect, BoxPoints(rrect)>>
    /\ roi' = boundingRect(contour)
    /\ pc' = IF outpath THEN "render" ELSE "return"
    /\ UNCHANGED <<bufs, contour, max_area, attempts, title, written, result>>
    /\ UnchangedArgs

\* the drawing code reusing x, y for the centre of the upright roi
RenderClobber ==
    /\ pc = "render"
    /\ LET sample == cvtColor(bufs["img"], "BGR2RGB")
           drawn == draw(draw(draw(draw(sample, "drawContours"), "circle"),
                              "rectangle"), "circle")
       IN  bufs' = Put(bufs, "sample", drawn)
    /\ roi' = <<roi[1] + roi[3] \div 2, roi[2] + roi[4] \div 2, roi[3], roi[4]>>
    /\ written' = IF entry = "area" THEN "_contours.jpg" ELSE "_roi.jpg"
    /\ pc' = "return"
    /\ UNCHANGED <<contour, max_area, attempts, title, rroi, result>>
    /\ UNCHANGED <<entry, frame, a_low, a_high, outpath, prev, prevMode, pvars, avars>>

\* sample = img: the regions drawn on the frame's own array
RenderInPlace ==
    /\ pc = "render"
    /\ LET drawn == draw(draw(draw(draw(bufs["img"], "drawContours"), "circle"),
                              "rectangle"), "circle")
       IN  bufs' = Put(Put(bufs, "img", drawn), "sample", drawn)
    /\ written' = IF entry = "area" THEN "_contours.jpg" ELSE "_roi.jpg"
    /\ pc' = "return"
    /\ UNCHANGED <<contour, max_area, attempts, title, rroi, roi, result>>
    /\ UNCHANGED <<entry, frame, a_low, a_high, outpath, prev, prevMode, pvars, avars>>

Render ==
    /\ pc = "render"
    /\ LET sample == cvtColor(bufs["img"], "BGR2RGB")
           drawn == draw(draw(draw(draw(sample, "drawContours"), "circle"),
                              "rectangle"), "circle")
       IN  bufs' = Put(bufs, "sample", drawn)
    /\ written' = IF entry = "area" THEN "_contours.jpg" ELSE "_roi.jpg"
    /\ pc' = "return"
    /\ UNCHANGED <<contour, max_area, attempts, title, rroi, roi, result>>
    /\ UnchangedArgs

Return ==
    /\ pc = "return"
    /\ result' = [kind |-> "region", rroi |-> rroi, roi |-> roi]
    /\ pc' = "returned"
    /\ UNCHANGED <<bufs, contour, max_area, attempts, title, rroi, roi, written>>
    /\ UnchangedArgs

----------------------------------------------------------------------------
(* PickAndPlace.perform (joint_pick_and_place.py).  The robot, the camera, the
   detector, the servoing and the instruction client are collaborators: a call to
   one of them is logged in cmds with what it returned, and what it returns is any
   of the values the code distinguishes. *)

\* what client.wait_for_instruction() returns: 'exit' or '<object> <target>'
Instructions == {"exit", "mug table", "mug hand", "hand table", "hand hand"}

\* instr.split(' ')
splitInstr(s) ==
    CASE s = "mug table"  -> <<"mug", "table">>
      [] s = "mug hand"   -> <<"mug", "hand">>
      [] s = "hand table" -> <<"hand", "table">>
      [] s = "hand hand"  -> <<"hand", "hand">>
      [] OTHER            -> <<s>>

Arms == {"left", "right"}

\* a position estimate [x, y, z], symbolically
Position == <<"x", "y", "z">>

\* what estimate_hand_position() / estimate_object_position() return
Estimates == {None, Position}

\* pose += [0, 0, 0]
withOrientation(pose) == pose \o <<"0", "0", "0">>

\* tgt_pose = [0.5, 0.2, 0.3, 0, 0, 0]
TablePose == <<"0.5", "0.2", "0.3", "0", "0", "0">>

Unbound == <<"unbound">>

Log(c) == cmds' = Append(cmds, c)
Log2(c, d) == cmds' = cmds \o <<c, d>>

\* rospy.sleep(): returns, or under simulated time raises ROSInterruptException once
\* ROS is shut down
SleepInterrupted == IF is_shutdown THEN BOOLEAN ELSE {FALSE}

PerformIdle ==
    /\ ppc = "start"
    /\ instr = ""
    /\ is_shutdown = FALSE
    /\ obj_id = "" /\ tgt_id = ""
    /\ obj_pose = Unbound /\ tgt_pose = Unbound
    /\ arm = ""
    /\ success = FALSE
    /\ cmds = <<>>
    /\ fails = 0
    /\ polls = 0

UnchangedSeg ==
    UNCHANGED <<entry, frame, a_low, a_high, outpath, pc, bufs, contour, max_area,
                attempts, title, rroi, roi, written, result, prev, prevMode>>

\* instr = client.wait_for_instruction()   (before the loop)
WaitFirst ==
    /\ ppc = "start"
    /\ instr' \in Instructions
    /\ Log("wait_for_instruction")
    /\ ppc' = "loop"
    /\ UNCHANGED <<is_shutdown, obj_id, tgt_id, obj_pose, tgt_pose, arm, success, fails, polls>>
    /\ UnchangedSeg /\ UNCHANGED avars

\* while not rospy.is_shutdown() and instr != 'exit':
LoopTest ==
    /\ ppc = "loop"
    /\ ppc' = IF ~is_shutdown /\ instr # "exit" THEN "split" ELSE "exited"
    /\ UNCHANGED <<instr, is_shutdown, obj_id, tgt_id, obj_pose, tgt_pose, arm, success,
                   cmds, fails, polls>>
    /\ UnchangedSeg /\ UNCHANGED avars

\* obj_id, tgt_id = instr.split(' '): a new task begins
Split ==
    /\ ppc = "split"
    /\ obj_id' = splitInstr(instr)[1]
    /\ tgt_id' = splitInstr(instr)[2]
    /\ cmds' = <<>>
    /\ fails' = 0
    /\ polls' = 0
    /\ ppc' = IF obj_id' = "hand" THEN "estimate_hand" ELSE "collect"
    /\ UNCHANGED <<instr, is_shutdown, obj_pose, tgt_pose, arm, success>>
    /\ UnchangedSeg /\ UNCHANGED avars

\* obj_pose = self._camera.estimate_hand_position()
EstimateHand ==
    /\ ppc = "estimate_hand"
    /\ \E est \in Estimates :
        /\ obj_pose' = est
        /\ Log(IF est = None THEN "estimate_hand_position:None"
                             ELSE "estimate_hand_position:pose")
    /\ ppc' = "hand_loop"
    /\ UNCHANGED <<instr, is_shutdown, obj_id, tgt_id, tgt_pose, arm, success, fails, polls>>
    /\ UnchangedSeg /\ UNCHANGED avars

\* while obj_pose is None: rospy.sleep(1.0); obj_pose = estimate_hand_position()
HandRetry ==
    /\ ppc = "hand_loop" /\ obj_pose = None
    /\ polls < MaxPolls
    /\ polls' = polls + 1
    /\ \E interrupted \in SleepInterrupted :
        IF interrupted
        THEN /\ Log("sleep:ROSInterruptException")
             /\ ppc' = "raised"
             /\ UNCHANGED obj_pose
        ELSE \E est \in Estimates :
                /\ obj_pose' = est
                /\ Log2("sleep", IF est = None THEN "estimate_hand_position:None"
                                               ELSE "estimate_hand_position:pose")
                /\ ppc' = "hand_loop"
    /\ UNCHANGED <<instr, is_shutdown, obj_id, tgt_id, tgt_pose, arm, success, fails>>
    /\ UnchangedSeg /\ UNCHANGED avars

\* the loop is left; obj_pose += [0, 0, 0]
HandFound ==
    /\ ppc = "hand_loop" /\ obj_pose # None
    /\ obj_pose' = withOrientation(obj_pose)
    /\ ppc' = "ik"
    /\ UNCHANGED <<instr, is_shutdown, obj_id, tgt_id, tgt_pose, arm, success, cmds,
                   fails, polls>>
    /\ UnchangedSeg /\ UNCHANGED avars

\* img_color, img_depth = collect_image(); det = detect_object(...);
\* obj_pose = estimate_object_position(...)
Collect ==
    /\ ppc = "collect"
    /\ \E est \in Estimates :
        /\ obj_pose' = est
        /\ cmds' = cmds \o <<"collect_image:color", "collect_image:depth", "detect_object",
                             IF est = None THEN "estimate_object_position:None"
                                           ELSE "estimate_object_position:pose">>
    /\ ppc' = "search"
    /\ UNCHANGED <<instr, is_shutdown, obj_id, tgt_id, tgt_pose, arm, success, fails, polls>>
    /\ UnchangedSeg /\ UNCHANGED avars

\* the search loop looking again: the images, the detection and the estimate redone
SearchAgain ==
    /\ ppc = "search" /\ obj_pose = None
    /\ polls < MaxPolls
    /\ polls' = polls + 1
    /\ \E est \in Estimates :
        /\ obj_pose' = est
        /\ cmds' = cmds \o <<"collect_image:color", "collect_image:depth", "detect_object",
                             IF est = None THEN "estimate_object_position:None"
                                           ELSE "estimate_object_position:pose">>
    /\ ppc' = "search"
    /\ UNCHANGED <<instr, is_shutdown, obj_id, tgt_id, tgt_pose, arm, success, fails>>
    /\ UnchangedSeg /\ UNCHANGED avars

\* while obj_pose is None: _logger.info(...)   (nothing else in the body)
SearchSpin ==
    /\ ppc = "search" /\ obj_pose = None
    /\ polls < MaxPolls
    /\ polls' = polls + 1
    /\ ppc' = "search"
    /\ UNCHANGED <<instr, is_shutdown, obj_id, tgt_id, obj_pose, tgt_pose, arm, success,
                   cmds, fails>>
    /\ UnchangedSeg /\ UNCHANGED avars

\* the loop is not entered; obj_pose += [0, 0, 0]
ObjFound ==
    /\ ppc = "search" /\ obj_pose # None
    /\ obj_pose' = withOrientation(obj_pose)
    /\ ppc' = "ik"
    /\ UNCHANGED <<instr, is_shutdown, obj_id, tgt_id, tgt_pose, arm, success, cmds,
                   fails, polls>>
    /\ UnchangedSeg /\ UNCHANGED avars

\* except ValueError: leave the loop instead of awaiting the next instruction
IkEitherBreak ==
    /\ ppc = "ik"
    /\ \/ \E a \in Arms :
            /\ arm' = a
            /\ Log("ik_either_limb:ok")
            /\ ppc' = "target"
            /\ UNCHANGED instr
       \/ /\ Log("ik_either_limb:ValueError")
          /\ ppc' = "exited"
          /\ UNCHANGED <<arm, instr>>
    /\ UNCHANGED <<is_shutdown, obj_id, tgt_id, obj_pose, tgt_pose, success, fails, polls>>
    /\ UnchangedSeg /\ UNCHANGED avars

\* try: arm, appr_cfg = ik_either_limb(pose=appr_pose)
\* except ValueError: instr = client.wait_for_instruction(); continue
IkEither ==
    /\ ppc = "ik"
    /\ \/ \E a \in Arms :
            /\ arm' = a
            /\ Log("ik_either_limb:ok")
            /\ ppc' = "target"
            /\ UNCHANGED instr
       \/ /\ instr' \in Instructions
          /\ Log2("ik_either_limb:ValueError", "wait_for_instruction")
          /\ ppc' = "loop"
          /\ UNCHANGED arm
    /\ UNCHANGED <<is_shutdown, obj_id, tgt_id, obj_pose, tgt_pose, success, fails, polls>>
    /\ UnchangedSeg /\ UNCHANGED avars

\* if tgt_id == 'table': tgt_pose = [0.5, 0.2, 0.3, 0, 0, 0];  success = False
TargetSpot ==
    /\ ppc = "target"
    /\ tgt_pose' = IF tgt_id = "table" THEN TablePose ELSE tgt_pose
    /\ success' = FALSE
    /\ ppc' = "grasp_loop"
    /\ UNCHANGED <<instr, is_shutdown, obj_id, tgt_id, obj_pose, arm, cmds, fails, polls>>
    /\ UnchangedSeg /\ UNCHANGED avars

\* while not success: self._robot.move_to(config=appr_cfg)
Approach ==
    /\ ppc = "grasp_loop" /\ ~success
    /\ Log("move_to:appr_cfg")
    /\ ppc' = "servo"
    /\ UNCHANGED <<instr, is_shutdown, obj_id, tgt_id, obj_pose, tgt_pose, arm, success,
                   fails, polls>>
    /\ UnchangedSeg /\ UNCHANGED avars

\* self._servo['hand' or 'table'].servo(arm=arm, object_id=obj_id)
Servo ==
    /\ ppc = "servo"
    /\ Log(IF obj_id = "hand" THEN "servo:hand" ELSE "servo:table")
    /\ ppc' = "grasp"
    /\ UNCHANGED <<instr, is_shutdown, obj_id, tgt_id, obj_pose, tgt_pose, arm, success,
                   fails, polls>>
    /\ UnchangedSeg /\ UNCHANGED avars

\* a failed grasp ends the loop without release(arm)
GraspOnce ==
    /\ ppc = "grasp"
    /\ \/ /\ success' = TRUE
          /\ Log("grasp:True")
          /\ UNCHANGED fails
       \/ /\ fails < MaxTries
          /\ fails' = fails + 1
          /\ success' = TRUE
          /\ Log("grasp:False")
    /\ ppc' = "grasp_loop"
    /\ UNCHANGED <<instr, is_shutdown, obj_id, tgt_id, obj_pose, tgt_pose, arm, polls>>
    /\ UnchangedSeg /\ UNCHANGED avars

\* if self._robot.grasp(arm): success = True   else: self._robot.release(arm)
Grasp ==
    /\ ppc = "grasp"
    /\ \/ /\ success' = TRUE
          /\ Log("grasp:True")
          /\ UNCHANGED fails
       \/ /\ fails < MaxTries
          /\ fails' = fails + 1
          /\ success' = FALSE
          /\ Log2("grasp:False", "release:arm")
    /\ ppc' = "grasp_loop"
    /\ UNCHANGED <<instr, is_shutdown, obj_id, tgt_id, obj_pose, tgt_pose, arm, polls>>
    /\ UnchangedSeg /\ UNCHANGED avars

\* the loop is left; self._robot.move_to(config=settings.top_cfgs[arm])
Top ==
    /\ ppc = "grasp_loop" /\ success
    /\ Log("move_to:top")
    /\ ppc' = IF tgt_id = "table" THEN "place_approach" ELSE "estimate_target"
    /\ UNCHANGED <<instr, is_shutdown, obj_id, tgt_id, obj_pose, tgt_pose, arm, success,
                   fails, polls>>
    /\ UnchangedSeg /\ UNCHANGED avars

\* appr_cfg = inverse_kinematics(arm, appr_pose) (ValueError raised again);
\* move_to(config=appr_cfg)
PlaceApproach ==
    /\ ppc = "place_approach"
    /\ \/ /\ Log2("inverse_kinematics:ok", "move_to:appr_cfg")
          /\ ppc' = "place_target"
       \/ /\ Log("inverse_kinematics:ValueError")
          /\ ppc' = "raised"
    /\ UNCHANGED <<instr, is_shutdown, obj_id, tgt_id, obj_pose, tgt_pose, arm, success,
                   fails, polls>>
    /\ UnchangedSeg /\ UNCHANGED avars

\* tgt_cfg = inverse_kinematics(arm, tgt_pose) (ValueError raised again);
\* move_to(config=tgt_cfg)
PlaceTarget ==
    /\ ppc = "place_target"
    /\ \/ /\ Log2("inverse_kinematics:ok", "move_to:tgt_cfg")
          /\ ppc' = "put_down"
       \/ /\ Log("inverse_kinematics:ValueError")
          /\ ppc' = "raised"
    /\ UNCHANGED <<instr, is_shutdown, obj_id, tgt_id, obj_pose, tgt_pose, arm, success,
                   fails, polls>>
    /\ UnchangedSeg /\ UNCHANGED avars

\* self._robot.release(); self._robot.move_to(config=appr_cfg)
PutDown ==
    /\ ppc = "put_down"
    /\ Log2("release", "move_to:appr_cfg")
    /\ ppc' = "finish"
    /\ UNCHANGED <<instr, is_shutdown, obj_id, tgt_id, obj_pose, tgt_pose, arm, success,
                   fails, polls>>
    /\ UnchangedSeg /\ UNCHANGED avars

\* tgt_pose = self._camera.estimate_hand_position()
EstimateTarget ==
    /\ ppc = "estimate_target"
    /\ \E est \in Estimates :
        /\ tgt_pose' = est
        /\ Log(IF est = None THEN "estimate_hand_position:None"
                             ELSE "estimate_hand_position:pose")
    /\ ppc' = "target_loop"
    /\ UNCHANGED <<instr, is_shutdown, obj_id, tgt_id, obj_pose, arm, success, fails, polls>>
    /\ UnchangedSeg /\ UNCHANGED avars

\* while tgt_pose is None: rospy.sleep(1.0); tgt_pose = estimate_hand_position()
TargetRetry ==
    /\ ppc = "target_loop" /\ tgt_pose = None
    /\ polls < MaxPolls
    /\ polls' = polls + 1
    /\ \E interrupted \in SleepInterrupted :
        IF interrupted
        THEN /\ Log("sleep:ROSInterruptException")
             /\ ppc' = "raised"
             /\ UNCHANGED tgt_pose
        ELSE \E est \in Estimates :
                /\ tgt_pose' = est
                /\ Log2("sleep", IF est = None THEN "estimate_hand_position:None"
                                               ELSE "estimate_hand_position:pose")
                /\ ppc' = "target_loop"
    /\ UNCHANGED <<instr, is_shutdown, obj_id, tgt_id, obj_pose, arm, success, fails>>
    /\ UnchangedSeg /\ UNCHANGED avars

\* tgt_pose += [0, 0, 0]; tgt_cfg = inverse_kinematics(arm, tgt_pose) (ValueError
\* raised again); move_to(config=tgt_cfg)
TargetIk ==
    /\ ppc = "target_loop" /\ tgt_pose # None
    /\ tgt_pose' = withOrientation(tgt_pose)
    /\ \/ /\ Log2("inverse_kinematics:ok", "move_to:tgt_cfg")
          /\ ppc' = "grip_poll"
       \/ /\ Log("inverse_kinematics:ValueError")
          /\ ppc' = "raised"
    /\ UNCHANGED <<instr, is_shutdown, obj_id, tgt_id, obj_pose, arm, success, fails, polls>>
    /\ UnchangedSeg /\ UNCHANGED avars

\* is_gripping(arm) asked once, its answer ignored
GripPollOnce ==
    /\ ppc = "grip_poll"
    /\ \/ /\ Log("is_gripping:False")
          /\ ppc' = "hand_over"
          /\ UNCHANGED polls
       \/ /\ polls < MaxPolls
          /\ polls' = polls + 1
          /\ Log("is_gripping:True")
          /\ ppc' = "hand_over"
    /\ UNCHANGED <<instr, is_shutdown, obj_id, tgt_id, obj_pose, tgt_pose, arm, success, fails>>
    /\ UnchangedSeg /\ UNCHANGED avars

\* while self._robot.is_gripping(arm): rospy.sleep(0.5)
GripPoll ==
    /\ ppc = "grip_poll"
    /\ \/ /\ Log("is_gripping:False")
          /\ ppc' = "hand_over"
          /\ UNCHANGED polls
       \/ /\ polls < MaxPolls
          /\ polls' = polls + 1
          /\ \E interrupted \in SleepInterrupted :
                IF interrupted
                THEN /\ Log2("is_gripping:True", "sleep:ROSInterruptException")
                     /\ ppc' = "raised"
                ELSE /\ Log2("is_gripping:True", "sleep")
                     /\ ppc' = "grip_poll"
    /\ UNCHANGED <<instr, is_shutdown, obj_id, tgt_id, obj_pose, tgt_pose, arm, success, fails>>
    /\ UnchangedSeg /\ UNCHANGED avars

\* self._robot.release()
HandOver ==
    /\ ppc = "hand_over"
    /\ Log("release")
    /\ ppc' = "finish"
    /\ UNCHANGED <<instr, is_shutdown, obj_id, tgt_id, obj_pose, tgt_pose, arm, success,
                   fails, polls>>
    /\ UnchangedSeg /\ UNCHANGED avars

\* move_to(config=settings.top_cfgs[arm]); move_to_neutral(arm=arm);
\* instr = client.wait_for_instruction()
Finish ==
    /\ ppc = "finish"
    /\ cmds' = cmds \o <<"move_to:top", "move_to_neutral", "wait_for_instruction">>
    /\ instr' \in Instructions
    /\ ppc' = "loop"
    /\ UNCHANGED <<is_shutdown, obj_id, tgt_id, obj_pose, tgt_pose, arm, success, fails, polls>>
    /\ UnchangedSeg /\ UNCHANGED avars

\* ROS is shut down (rospy.is_shutdown() is True from then on)
Shutdown ==
    /\ ppc \notin {"exited", "raised"}
    /\ ~is_shutdown
    /\ is_shutdown' = TRUE
    /\ UNCHANGED <<ppc, instr, obj_id, tgt_id, obj_pose, tgt_pose, arm, success, cmds,
                   fails, polls>>
    /\ UnchangedSeg /\ UNCHANGED avars

----------------------------------------------------------------------------
(* _assemble_image (assemble_data.py): patches pasted on a background.  Only the
   geometry is modelled: the size of each patch, its rotation and where it lands. *)

max_nr_patches == 5
x_min == 400
x_max == 1020
y_min == 310
y_max == 670

\* the largest side a patch may have: if w > 400 or h > 400: raise ValueError
MaxPatchSide == 400

\* h, w = patch.shape[:2] of the files in fg_list
PatchSides == {100 * k : k \in 1..MaxSizeSteps}

\* alpha = 180*(np.random.random() - 0.5), in [-90, 90): the angles whose cosine c/d
\* and sine s/d are rational
Angles ==
    { [c |-> 1, s |-> 0, d |-> 1],  [c |-> 0, s |-> -1, d |-> 1],
      [c |-> 4, s |-> 3, d |-> 5],  [c |-> 3, s |-> -4, d |-> 5] }

NoAngle == [c |-> 1, s |-> 0, d |-> 1]

\* int(np.ceil(n/d)) computed in floating point: where cos or sin is not exactly
\* representable a product that is an integer in exact arithmetic can round to just
\* above it
Ceilings(n, d, exact) ==
    IF n % d # 0 THEN {n \div d + 1}
    ELSE IF exact THEN {n \div d}
    ELSE {n \div d, n \div d + 1}

\* _newdim(w, h, angle): the extent (ptp) of the rotated corners along each axis,
\* rot = [[cos, sin], [-sin, cos]];  the result is (nw, nh)
newdim(ww, hh, angle) ==
    LET exact == angle.c = 1 /\ angle.s = 0
    IN  { <<a, b>> : a \in Ceilings(Abs(angle.c) * ww + Abs(angle.s) * hh, angle.d, exact),
                     b \in Ceilings(Abs(angle.s) * ww + Abs(angle.c) * hh, angle.d, exact) }

\* np.random.randint(low, high) raises ValueError('low >= high') on an empty range
randintFails(low, high) == low >= high

\* np.random.randint(low, high) draws from low..high-1: the two ends of the range
randint(low, high) == {low, high - 1}

AssembleIdle ==
    /\ apc = "start"
    /\ left = 0
    /\ hw = <<0, 0>>
    /\ alpha = NoAngle
    /\ nhw = <<0, 0>>
    /\ tx = 0
    /\ ty = 0
    /\ aerr = ""

\* nr_patches = np.random.randint(parameters['max_nr_patches'])
SamplePatches ==
    /\ apc = "start"
    /\ left' \in 0..(max_nr_patches - 1)
    /\ apc' = "patches"
    /\ UNCHANGED <<hw, alpha, nhw, tx, ty, aerr>>
    /\ UnchangedSeg /\ UNCHANGED pvars

\* for p in patches: patch = cv2.imread(p); h, w = patch.shape[:2]; the size check
ReadPatch ==
    /\ apc = "patches" /\ left > 0
    /\ left' = left - 1
    /\ \E hh \in PatchSides, ww \in PatchSides :
        /\ hw' = <<hh, ww>>
        /\ IF ww > MaxPatchSide \/ hh > MaxPatchSide
           THEN apc' = "raised" /\ aerr' = "Something is wrong with patch"
           ELSE apc' = "rotate" /\ aerr' = aerr
    /\ UNCHANGED <<alpha, nhw, tx, ty>>
    /\ UnchangedSeg /\ UNCHANGED pvars

\* alpha = ...; patch = _aug_rotate(patch, alpha); nh, nw = patch.shape[:2]
Rotate ==
    /\ apc = "rotate"
    /\ \E angle \in Angles :
        /\ alpha' = angle
        /\ \E n \in newdim(hw[2], hw[1], angle) : nhw' = <<n[2], n[1]>>
    /\ apc' = "translate"
    /\ UNCHANGED <<left, hw, tx, ty, aerr>>
    /\ UnchangedSeg /\ UNCHANGED pvars

\* tx = randint(x_min, x_max - nw); ty = randint(y_min, y_max - nh)
Translate ==
    /\ apc = "translate"
    /\ IF randintFails(x_min, x_max - nhw[2]) \/ randintFails(y_min, y_max - nhw[1])
       THEN /\ apc' = "raised"
            /\ aerr' = "low >= high"
            /\ UNCHANGED <<tx, ty>>
       ELSE /\ tx' \in randint(x_min, x_max - nhw[2])
            /\ ty' \in randint(y_min, y_max - nhw[1])
            /\ apc' = "paste"
            /\ UNCHANGED aerr
    /\ UNCHANGED <<left, hw, alpha, nhw>>
    /\ UnchangedSeg /\ UNCHANGED pvars

\* img[ty:ty + nh, tx:tx + nw] = patch
Paste ==
    /\ apc = "paste"
    /\ apc' = "patches"
    /\ UNCHANGED <<left, hw, alpha, nhw, tx, ty, aerr>>
    /\ UnchangedSeg /\ UNCHANGED pvars

\* return [image_name, image_filename, patch_parameters, label]
AssembleReturn ==
    /\ apc = "patches" /\ left = 0
    /\ apc' = "returned"
    /\ UNCHANGED <<left, hw, alpha, nhw, tx, ty, aerr>>
    /\ UnchangedSeg /\ UNCHANGED pvars

----------------------------------------------------------------------------

Init ==
    /\ entry = "none"
    /\ frame = NoFrame
    /\ a_low = 0
    /\ a_high = 0
    /\ outpath = FALSE
    /\ pc = "idle"
    /\ bufs = NoBufs
    /\ contour = None
    /\ max_area = 0
    /\ attempts = <<>>
    /\ title = ""
    /\ rroi = <<>>
    /\ roi = <<>>
    /\ written = ""
    /\ result = NoResult
    /\ prev = NoOutcome
    /\ prevMode = "none"
    /\ PerformIdle
    /\ AssembleIdle

Next ==
    \/ CallArea
    \/ CallRed
    \/ CallBlue
    \/ Repeat
    \/ RepeatToggled
    \/ Discard
    \/ SegThreshold
    \/ SegOpening
    \/ SegOutline
    \/ SegFlooded
    \/ SegCheck
    \/ RedThreshold
    \/ BlueThreshold
    \/ Roi
    \/ Render
    \/ Return

Spec == Init /\ [][Next]_vars

----------------------------------------------------------------------------
(* _extract_contour on its own: any list of contours, any band *)

InitExtract ==
    /\ entry = "extract"
    /\ frame \in {f \in Frames("extract", Catalogue) : f.w = 6}
    /\ \E b \in Bands : a_low = b[1] /\ a_high = b[2]
    /\ outpath = FALSE
    /\ pc = "extract"
    /\ bufs = Put(NoBufs, "img", ImgPx)
    /\ contour = None
    /\ max_area = 0
    /\ attempts = <<>>
    /\ title = ""
    /\ rroi = <<>>
    /\ roi = <<>>
    /\ written = ""
    /\ result = NoResult
    /\ prev = NoOutcome
    /\ prevMode = "none"
    /\ PerformIdle
    /\ AssembleIdle

ExtractCall ==
    /\ entry = "extract" /\ pc = "extract"
    /\ Extract("extract", bufs["img"])
    /\ pc' = "returned"
    /\ UNCHANGED <<bufs, title, rroi, roi, written, result>>
    /\ UnchangedArgs

NextExtract == ExtractCall

SpecExtract == InitExtract /\ [][NextExtract]_vars

----------------------------------------------------------------------------
(* perform and _assemble_image on their own *)

NextPerform ==
    \/ WaitFirst
    \/ LoopTest
    \/ Split
    \/ EstimateHand
    \/ HandRetry
    \/ HandFound
    \/ Collect
    \/ SearchSpin
    \/ ObjFound
    \/ IkEither
    \/ TargetSpot
    \/ Approach
    \/ Servo
    \/ Grasp
    \/ Top
    \/ PlaceApproach
    \/ PlaceTarget
    \/ PutDown
    \/ EstimateTarget
    \/ TargetRetry
    \/ TargetIk
    \/ GripPoll
    \/ HandOver
    \/ Finish
    \/ Shutdown

SpecPerform == Init /\ [][NextPerform]_vars

NextAssemble ==
    \/ SamplePatches
    \/ ReadPatch
    \/ Rotate
    \/ Translate
    \/ Paste
    \/ AssembleReturn

SpecAssemble == Init /\ [][NextAssemble]_vars

----------------------------------------------------------------------------
(* Properties *)

StageOrder == <<"threshold", "opening", "outline", "flooded">>

InBand(c) == 2 * a_low < contourArea2(c) /\ contourArea2(c) < 2 * a_high

Running == entry \in {"area", "red", "blue"}

\* C1: segment_area attempts threshold, opening, outline, flood-fill in this order;
\* a stage is attempted only if every stage before it returned no contour, and the
\* contour a stage returns is the one the function keeps: no stage follows it.
C1_StagesInOrderStopAtFirst ==
    entry = "area" =>
        /\ Len(attempts) <= Len(StageOrder)
        /\ \A i \in 1..Len(attempts) :
            /\ attempts[i].stage = StageOrder[i]
            /\ i < Len(attempts) => attempts[i].contour = None
        /\ contour = IF attempts = <<>> THEN None ELSE attempts[Len(attempts)].contour
        /\ contour # None => pc \in {"check", "roi", "render", "return", "returned"}

\* the outline stage found a contour after threshold and opening found none
C1_Witness ==
    /\ entry = "area" /\ pc = "returned"
    /\ Len(attempts) = 3 /\ contour # None
    /\ findContours(ThreshImg) # <<>>

\* C2: _extract_contour returns a contour of maximum area among those with
\* a_low < area < a_high, and None exactly when the list has no contour in the band.
C2_MaxAreaInBand ==
    (entry = "extract" /\ pc = "returned") =>
        LET cs == findContours(ImgPx)
            inband == {i \in 1..Len(cs) : InBand(cs[i])}
        IN  /\ contour = None <=> inband = {}
            /\ contour # None =>
                /\ contour \in Range(cs)
                /\ InBand(contour)
                /\ \A i \in inband : contourArea2(cs[i]) <= contourArea2(contour)

\* C3: segment_area raises ValueError('No contour found!') with no region exactly
\* when no stage yields a contour, and returns a region in every other case.
C3_FailsExactlyWhenAllStagesFail ==
    (entry = "area" /\ Terminal) =>
        LET keys == KeysOf("area")
            allNone == \A k \in 1..Len(keys) :
                           extract_contour(findContours(keys[k]), a_low, a_high).contour = None
        IN  /\ allNone => (result.kind = "ValueError" /\ result.rroi = <<>> /\ result.roi = <<>>)
            /\ ~allNone => (result.kind = "region" /\ result.rroi # <<>> /\ result.roi # <<>>)

\* C4 as claimed: with a_low >= a_high the call fails with an invalid-argument
\* failure, distinct from no-region-found, before any image transform is run.
C4_FailFastOnInvalidBand ==
    (Running /\ a_low >= a_high) =>
        /\ \A b \in BufNames \ {"img"} : bufs[b] = Unset
        /\ attempts = <<>>
        /\ Terminal => result.kind = "invalid-argument"

\* C4 as amended: with a_low >= a_high no argument check is made; the transforms
\* run as for any band, every extraction returns None, no region is returned, and
\* the call ends as an ordinary miss does: segment_area after all its stages with
\* 'No contour found!' (or in floodFill, when the seed is outside the frame), the
\* channel variants with 'No contour found!' after their one threshold.
C4_InvalidBandIsAnOrdinaryMiss ==
    (Running /\ a_low >= a_high) =>
        /\ contour = None
        /\ \A i \in 1..Len(attempts) : attempts[i].contour = None
        /\ Terminal =>
            /\ bufs["thresh"] # Unset
            /\ entry = "area" =>
                \/ result.kind = "ValueError" /\ Len(attempts) = 4
                \/ /\ result.kind = "cv2.error" /\ Len(attempts) = 3
                   /\ ~SeedInside(seed_pt, frame.w, frame.h)
            /\ entry # "area" => (result.kind = "ValueError" /\ Len(attempts) = 1)

\* an inverted band on a frame that has contours at the first stage: all four stages ran
C4_Witness ==
    /\ entry = "area" /\ pc = "raised" /\ a_low > a_high
    /\ result.kind = "ValueError" /\ Len(attempts) = 4
    /\ findContours(ThreshImg) # <<>>

C6_BandExclusive ==
    Running =>
        /\ \A i \in 1..Len(attempts) :
            attempts[i].contour # None =>
                /\ contourArea2(attempts[i].contour) # 2 * a_low
                /\ contourArea2(attempts[i].contour) # 2 * a_high
                /\ InBand(attempts[i].contour)
        /\ contour # None => InBand(contour)

\* the largest contour of the stage has exactly the area a_high; a smaller one is selected
C6_Witness ==
    /\ Running /\ contour # None /\ attempts # <<>>
    /\ \E c \in Range(findContours(ThreshImg)) :
        /\ contourArea2(c) = 2 * a_high
        /\ contourArea2(c) > contourArea2(contour)

C9_FrameNotMutated ==
    /\ bufs["img"] \in {Unset, ImgPx}
    /\ (Running /\ pc \notin {"threshold", "channel"}) => bufs["img"] = ImgPx

\* a call that went through flood-fill and drew the regions
C9_Witness ==
    /\ entry = "area" /\ pc = "returned" /\ title = "flooded"
    /\ bufs["flooded"] = FloodedImg /\ bufs["sample"] # Unset /\ written = "_contours.jpg"

C11_StageImages ==
    entry = "area" =>
        \A i \in 1..Len(attempts) :
            LET im == attempts[i].image
                gray == <<"img", "RGB2GRAY">>
                mask1 == gray \o <<"equalizeHist", "threshold">>
                mask2 == mask1 \o <<"MORPH_OPEN">>
                mask3 == mask2 \o <<"MORPH_OPEN", "MORPH_GRADIENT">>
            IN  /\ i = 1 => (im = mask1 /\ im = bufs["thresh"])
                /\ i = 2 => (im = mask2 /\ im = bufs["opening"] /\ bufs["thresh"] = mask1)
                /\ i = 3 => (im = mask3 /\ im = bufs["outline"] /\ bufs["opening"] = mask2)
                /\ i = 4 => /\ im = gray \o <<"floodFill">>
                            /\ im = bufs["flooded"]
                            /\ bufs["gray"] = gray
                            /\ bufs["outline"] = mask3
                            /\ bufs["mask"] = mask3 \o <<"pad1", "floodFill">>

\* all four stages handed their image to the extraction
C11_Witness ==
    /\ entry = "area" /\ Len(attempts) = 4 /\ contour # None

\* C12: the flood-fill seed is a pixel of the image being filled:
\* 0 <= x < width and 0 <= y < height, for every frame that reaches stage 4.
C12_SeedInsideFrame ==
    (entry = "area" /\ bufs["mask"] # Unset) =>
        /\ 0 <= seed_pt[1] /\ seed_pt[1] < frame.w
        /\ 0 <= seed_pt[2] /\ seed_pt[2] < frame.h

----------------------------------------------------------------------------
(* Properties of perform *)

Perceived == {"estimate_hand_position:pose", "estimate_object_position:pose"}
IkCalls == {"ik_either_limb:ok", "ik_either_limb:ValueError",
            "inverse_kinematics:ok", "inverse_kinematics:ValueError"}
GripperCalls == {"grasp:True", "grasp:False", "release:arm", "release"}
ServoCalls == {"servo:hand", "servo:table"}
Motions == {"move_to:appr_cfg", "move_to:top", "move_to:tgt_cfg", "move_to_neutral"}
PlacingCalls == {"inverse_kinematics:ok", "inverse_kinematics:ValueError",
                 "move_to:tgt_cfg", "is_gripping:True", "is_gripping:False", "release"}

Called(c) == \E i \in 1..Len(cmds) : cmds[i] = c
Before(i, S) == \E j \in 1..(i - 1) : cmds[j] \in S
LastCmd == IF cmds = <<>> THEN "" ELSE cmds[Len(cmds)]

\* C13: in every task a call to inverse kinematics comes after a perception call
\* that gave a pose, and a gripper action after ik_either_limb succeeded; the
\* placing release() comes after a successful grasp of the task and after the
\* move to the target configuration reached after that grasp, and in a hand-over
\* right after is_gripping(arm) returned False; after the release the task moves to
\* the top configuration, then to neutral, and only then awaits the next instruction.
C13_TaskSequence ==
    \A i \in 1..Len(cmds) :
        /\ cmds[i] \in IkCalls => Before(i, Perceived)
        /\ cmds[i] \in GripperCalls => Before(i, {"ik_either_limb:ok"})
        /\ cmds[i] = "release" =>
            /\ \E j \in 1..(i - 1) :
                /\ cmds[j] = "grasp:True"
                /\ \E k \in (j + 1)..(i - 1) : cmds[k] = "move_to:tgt_cfg"
            /\ tgt_id # "table" => cmds[i - 1] = "is_gripping:False"
            /\ tgt_id = "table" => cmds[i - 1] = "move_to:tgt_cfg"
        /\ (cmds[i] = "wait_for_instruction" /\ Before(i, {"release"})) =>
            /\ cmds[i - 1] = "move_to_neutral"
            /\ cmds[i - 2] = "move_to:top"
            /\ cmds[i - 3] \in {"release", "move_to:appr_cfg"}
        /\ (ppc = "loop" /\ Called("release")) => LastCmd = "wait_for_instruction"

\* a hand-over completed after a failed grasp and a wait for the hand to let go
C13_Witness ==
    /\ ppc = "loop" /\ tgt_id = "hand" /\ Called("release")
    /\ Called("grasp:False") /\ Called("is_gripping:True")

\* C14: each grasp is preceded by the move to the approach configuration and the
\* servoing; a failed grasp is followed by release(arm) and the next attempt starts
\* with the move to the approach configuration; the move to the top configuration
\* and the placing calls come only after a grasp returned True; the loop is left
\* exactly when a grasp has returned True.
C14_GraspLoop ==
    /\ \A i \in 1..Len(cmds) :
        /\ cmds[i] \in {"grasp:True", "grasp:False"} =>
            /\ i >= 3
            /\ cmds[i - 1] \in ServoCalls
            /\ cmds[i - 2] = "move_to:appr_cfg"
        /\ cmds[i] = "grasp:False" =>
            /\ i < Len(cmds)
            /\ cmds[i + 1] = "release:arm"
            /\ i + 1 < Len(cmds) => cmds[i + 2] = "move_to:appr_cfg"
        /\ cmds[i] \in PlacingCalls \cup {"move_to:top"} => Before(i, {"grasp:True"})
        /\ cmds[i] = "grasp:True" =>
            /\ \A j \in (i + 1)..Len(cmds) : cmds[j] \notin ServoCalls \cup {"grasp:True", "grasp:False", "release:arm"}
            /\ i < Len(cmds) => cmds[i + 1] = "move_to:top"
    /\ ppc \in {"servo", "grasp"} => ~Called("grasp:True")
    /\ ppc = "grasp_loop" => (success <=> Called("grasp:True"))
    /\ ppc \in {"place_approach", "place_target", "put_down", "estimate_target",
                "target_loop", "grip_poll", "hand_over", "finish"} => Called("grasp:True")

\* a task that grasped at the second attempt and went on to place
C14_Witness ==
    /\ ppc = "finish" /\ fails = 1
    /\ Called("grasp:False") /\ Called("grasp:True")

Aborted == Called("ik_either_limb:ValueError")

\* the aborted task issued no robot command, awaited the next instruction right
\* after the error and is back at the head of the loop (or left it there)
AbortedTaskContinues ==
    Aborted =>
        /\ \A i \in 1..Len(cmds) : cmds[i] \notin Motions \cup ServoCalls \cup GripperCalls
        /\ Len(cmds) >= 2
        /\ cmds[Len(cmds) - 1] = "ik_either_limb:ValueError"
        /\ LastCmd = "wait_for_instruction"
        /\ ppc \in {"loop", "split", "exited"}

C16_SearchLoopNeverExits ==
    [][ /\ (ppc = "search" /\ obj_pose = None) =>
            /\ ppc' = "search" /\ obj_pose' = None
            /\ cmds' = cmds /\ instr' = instr
        /\ (ppc = "hand_loop" /\ obj_pose = None /\ polls' # polls) =>
            \/ /\ ppc' = "hand_loop"
               /\ Len(cmds') = Len(cmds) + 2
               /\ cmds'[Len(cmds')] \in {"estimate_hand_position:None",
                                         "estimate_hand_position:pose"}
               /\ obj_pose' = None <=> cmds'[Len(cmds')] = "estimate_hand_position:None"
            \/ /\ ppc' = "raised" /\ is_shutdown
               /\ cmds'[Len(cmds')] = "sleep:ROSInterruptException"
        /\ (ppc = "hand_loop" /\ obj_pose = None) => ppc' \in {"hand_loop", "raised"}
        /\ (ppc = "hand_loop" /\ obj_pose # None /\ is_shutdown' = is_shutdown) =>
            ppc' = "ik" /\ cmds' = cmds
      ]_vars

\* the search loop still spinning after ROS was shut down
C16_Witness ==
    /\ ppc = "search" /\ obj_pose = None /\ obj_id # "hand"
    /\ is_shutdown /\ polls >= 1

----------------------------------------------------------------------------
(* Properties of _assemble_image *)

\* C17: a patch that passed the size check has, after its rotation, a non-empty
\* range for each translation (x_min < x_max - nw and y_min < y_max - nh), no
\* 'low >= high' is raised, and the pasted patch lies inside the window.
C17_TranslationRangeNonEmpty ==
    /\ apc = "translate" => (x_min < x_max - nhw[2] /\ y_min < y_max - nhw[1])
    /\ aerr # "low >= high"
    /\ apc = "paste" =>
        /\ x_min <= tx /\ tx + nhw[2] <= x_max
        /\ y_min <= ty /\ ty + nhw[1] <= y_max

====
